---- MODULE Spec2Model ----
(***************************************************************************)
(* A model of the ferrules page-parse pipeline.                            *)
(*                                                                         *)
(*   LayoutSpec   the layout queue: ParseLayoutQueue::push, the N worker   *)
(*                loops of start_layout_parser and the spawned             *)
(*                handle_request tasks (ferrules-core/src/layout/mod.rs).  *)
(*   LayoutFairSpec  the same, with the fairness of the task scheduler.    *)
(*   FutSpec      one InferenceFut and the completion callback that        *)
(*                fulfils it (ferrules-core/src/layout/infer.rs).          *)
(*   PoolSpec     the BufferPool, the threads that get and put tensors,    *)
(*                and the submissions whose context owns a tensor          *)
(*                (ferrules-core/src/layout/infer.rs).                     *)
(*   NativeSpec   the native parser: ParseNativeQueue::push, the worker    *)
(*                loop of start_native_parser, handle_parse_native_req     *)
(*                and the consumers of the result streams                  *)
(*                (ferrules-core/src/parse/native.rs, parse/document.rs).  *)
(*   DocSpec      one parse_document call: its native request, the native  *)
(*                worker that serves it, the fusion tasks of its JoinSet   *)
(*                and the returned document                                *)
(*                (ferrules-core/src/parse/document.rs).                   *)
(*   BlockSpec    one Block and the elements merged into it with           *)
(*                Block::merge (ferrules-core/src/blocks.rs).              *)
(*   ChunkSpec    one call of chunk_docs_range (src/lib.rs).               *)
(*   ArgSpec      one call of parse_page_range (ferrules-cli/src/main.rs). *)
(*   OcrSpec      one call of OCRLines::to_line                            *)
(*                (ferrules-core/src/ocr/mod.rs).                          *)
(*                                                                         *)
(* Every specification leaves the variables of the other components at     *)
(* their initial values.                                                   *)
(***************************************************************************)
EXTENDS Integers, Sequences, FiniteSets, TLC

(***************************************************************************)
(* Bounds of the model.                                                    *)
(***************************************************************************)
\* Size of a layout-queue run: its worker loops (n_parser) and its requests
\* (fusion tasks, one per page) together.
MaxLoad == 4
\* Largest ort_config.intra_threads.
MaxIntra == 2
\* Tensors preallocated in the buffer pool.
PoolSize == 2
\* Threads that use the buffer pool.
MaxThreads == 3
\* Load of one run of the native parser: the number of its parse requests
\* plus the page count of the largest document among them.
MaxNativeLoad == 4
\* Most elements one block absorbs after its first.
MaxMerges == 2
\* Largest page count and largest page_range bound given to chunk_docs_range,
\* and the largest number of workers.
MaxChunkPages == 10
MaxWorkers == 3
\* Longest --page-range argument, in characters.
MaxArgLen == 4
\* Largest coordinate of the box of an OCR line.
MaxCoord == 2

(***************************************************************************)
(* Constants of the program.                                               *)
(***************************************************************************)
\* Capacity of the native request queue.
MAX_CONCURRENT_NATIVE_REQS == 10
\* Capacity of the result channel of one native request: mpsc::channel(32).
NativeChanCap == 32

VARIABLES
    \* ---- layout queue (layout/mod.rs) ----
    intra_threads,   \* ort_config.intra_threads
    n_parser,        \* the n_parser argument of ParseLayoutQueue::new
    n_reqs,          \* the requests (pages) of the run
    queue,           \* the mpsc channel: requests sent and not yet received
    notifyPermit,    \* the permit stored in the Notify (0 or 1)
    notifyWaiters,   \* worker loops parked in notify.notified(), oldest first
    rxLock,          \* holder of the Mutex around the Receiver (0: free)
    wpc,             \* position of each worker loop
    sem,             \* available permits of each worker's Semaphore
    ppc,             \* position of each requester (fusion task) in push
    rxAlive,         \* whether the requester still holds the oneshot receiver
    reply,           \* what the oneshot channel of each request holds
    dequeues,        \* how many times recv() returned each request
    hpc,             \* position of the handle_request task of each request
    hreq,            \* the request each handle_request task owns
    hworker,         \* the worker loop that spawned the task
    hres,            \* layout_result of the task
    \* ---- async inference future (layout/infer.rs) ----
    value,           \* InferenceFutInner::value, the UnsafeCell
    waker,           \* InferenceFutInner::waker, behind its Mutex
    did_receive,     \* InferenceFut::did_receive
    innerRefs,       \* strong count of the Arc<InferenceFutInner>
    fpc,             \* position of the awaiting task in InferenceFut::poll
    taken,           \* what try_take read from the cell
    scheduled,       \* the awaiting task was woken and will be polled
    cpc,             \* position of async_callback
    wakes,           \* calls of Waker::wake made by the callback
    \* ---- buffer pool and submissions (layout/infer.rs) ----
    store,           \* BufferPool::store, the Vec behind the Mutex
    poolLock,        \* holder of the store Mutex (0: free)
    tpc,             \* position of each thread in get / put
    held,            \* the tensor each thread owns (0: none)
    ctx,             \* the AsyncInferenceContext that owns each tensor
    \* ---- native parser (parse/native.rs, parse/document.rs) ----
    n_native,        \* number of native parse requests of the run
    nqueue,          \* ParseNativeQueue: requests sent and not yet received
    npushed,         \* outcome of push for each request
    npc,             \* position of the native worker thread
    cur,             \* locals of handle_parse_native_req for the request at hand
    nchan,           \* result channel of each request: items sent, not yet received
    nclosed,         \* the request's sender_tx was dropped: the stream has ended
    nrx,             \* state of the consumer of each result stream
    \* ---- document orchestrator (parse/document.rs) ----
    ddoc,            \* arguments of parse_document: page_range and the document bytes
    dpc,             \* position of parse_document / parse_doc_pages
    tasks,           \* JoinSet: the fusion tasks spawned and not yet joined
    parsed_pages,    \* parsed_pages of parse_doc_pages (ids of the StructuredPages)
    joined,          \* what set.join_next() returned so far, in order
    dresult,         \* what parse_document returned
    \* ---- one Block and the merges into it (blocks.rs) ----
    blk,             \* the Block: id, kind (with the text or the items), pages_id, bbox
    absorbed,        \* the elements Block::merge returned Ok(()) for, in order
    mres,            \* what the last Block::merge call did
    \* ---- one chunk_docs_range call (src/lib.rs) ----
    cin,             \* its arguments: n_pages, n_workers, page_range
    cout,            \* what it returned
    \* ---- one parse_page_range call (ferrules-cli/src/main.rs) ----
    range_str,       \* its argument
    prange,          \* what it returned
    \* ---- one OCRLines::to_line call (ocr/mod.rs) ----
    ocr_line,        \* the OCRLines
    line             \* the Line made of it

layoutVars == <<intra_threads, n_parser, n_reqs, queue, notifyPermit, notifyWaiters,
                rxLock, wpc, sem, ppc, rxAlive, reply, dequeues, hpc, hreq, hworker,
                hres>>

futVars == <<value, waker, did_receive, innerRefs, fpc, taken, scheduled, cpc, wakes>>

poolVars == <<store, poolLock, tpc, held, ctx>>

nativeVars == <<n_native, nqueue, npushed, npc, cur, nchan, nclosed, nrx>>

docVars == <<ddoc, dpc, tasks, parsed_pages, joined, dresult>>

blockVars == <<blk, absorbed, mres>>

chunkVars == <<cin, cout>>

argVars == <<range_str, prange>>

ocrVars == <<ocr_line, line>>

vars == <<layoutVars, futVars, poolVars, nativeVars, docVars, blockVars, chunkVars,
          argVars, ocrVars>>

\* What the steps of one component leave alone.
nonLayoutVars == <<futVars, poolVars, nativeVars, docVars, blockVars, chunkVars,
     argVars, ocrVars>>
nonFutVars == <<layoutVars, poolVars, nativeVars, docVars, blockVars, chunkVars,
     argVars, ocrVars>>
nonPoolVars == <<layoutVars, futVars, nativeVars, docVars, blockVars, chunkVars,
     argVars, ocrVars>>
nonNativeVars == <<layoutVars, futVars, poolVars, docVars, blockVars, chunkVars,
     argVars, ocrVars>>
nonDocVars == <<layoutVars, futVars, poolVars, blockVars, chunkVars, argVars, ocrVars>>
nonBlockVars == <<layoutVars, futVars, poolVars, nativeVars, docVars, chunkVars,
     argVars, ocrVars>>
nonChunkVars == <<layoutVars, futVars, poolVars, nativeVars, docVars, blockVars,
                  argVars, ocrVars>>
nonArgVars == <<layoutVars, futVars, poolVars, nativeVars, docVars, blockVars, chunkVars,
                ocrVars>>
nonOcrVars == <<layoutVars, futVars, poolVars, nativeVars, docVars, blockVars, chunkVars,
                argVars>>

(***************************************************************************)
(* Layout queue                                                            *)
(***************************************************************************)
\* A request is named by its reply channel; the requests of a run are numbered
\* in the order in which the channel accepted them.
Chans == 1..n_reqs
Workers == 1..n_parser
\* Every name a request or a worker loop can have within the bounds.
Ids == 1..(MaxLoad - 1)

\* PageID of the page a fusion task works on: zero-based.
PageOf(c) == c - 1

NoReq == [page_id |-> -1, chan |-> 0]
NoReply == [kind |-> "none", page_id |-> -1]

\* ParseLayoutRequest {page_id, .., metadata: {response_tx, ..}}
LayoutRequest(c) == [page_id |-> PageOf(c), chan |-> c]

\* layout_result.map(|l| ParseLayoutResponse {page_id, ..}): an Ok result is
\* wrapped with the page_id destructured from the request, an Err passes through.
ResponseCrossed(req, res) ==
    IF res = "ok" THEN [kind |-> "ok", page_id |-> 0]
                  ELSE [kind |-> "err", page_id |-> -1]
ParseLayoutResponse(req, res) ==
    IF res = "ok" THEN [kind |-> "ok", page_id |-> req.page_id]
                  ELSE [kind |-> "err", page_id |-> -1]

\* The handle_request tasks that hold a permit of worker w's semaphore.
PermitHolders(w) == {c \in Chans : hworker[c] = w /\ hpc[c] = "infer"}

\* All handle_request tasks that hold a permit: the inferences running.
RunningInferences == {c \in Chans : hpc[c] = "infer"}

LayoutInit ==
    /\ intra_threads \in 1..MaxIntra
    /\ n_parser \in 1..(MaxLoad - 1)
    /\ n_reqs \in 1..(MaxLoad - n_parser)
    /\ queue = <<>>
    /\ notifyPermit = 0
    /\ notifyWaiters = <<>>
    /\ rxLock = 0
    /\ wpc = [w \in Workers |-> "lock"]
    /\ sem = [w \in Workers |-> intra_threads]
    /\ ppc = [c \in Chans |-> "idle"]
    /\ rxAlive = [c \in Chans |-> TRUE]
    /\ reply = [c \in Chans |-> NoReply]
    /\ dequeues = [c \in Chans |-> 0]
    /\ hpc = [c \in Chans |-> "none"]
    /\ hreq = [c \in Chans |-> NoReq]
    /\ hworker = [c \in Chans |-> 0]
    /\ hres = [c \in Chans |-> "none"]

\* push, first half: self.queue.send((req, span)).await completes once the
\* bounded channel (capacity intra_threads) has room.
PushSend(c) ==
    /\ c \in Chans
    /\ ppc[c] = "idle"
    /\ \A b \in Chans : b < c => ppc[b] # "idle"
    /\ Len(queue) < intra_threads
    /\ queue' = Append(queue, LayoutRequest(c))
    /\ ppc' = [ppc EXCEPT ![c] = "notify"]
    /\ UNCHANGED <<intra_threads, n_parser, n_reqs, notifyPermit, notifyWaiters, rxLock,
                   wpc, sem, rxAlive, reply, dequeues, hpc, hreq, hworker, hres>>

\* push, second half: self.notifier.notify_one() wakes the oldest parked
\* worker, or stores the single permit when none is parked.
PushNotify(c) ==
    /\ c \in Chans
    /\ ppc[c] = "notify"
    /\ ppc' = [ppc EXCEPT ![c] = "wait"]
    /\ IF notifyWaiters # <<>>
         THEN /\ wpc' = [wpc EXCEPT ![Head(notifyWaiters)] = "lock"]
              /\ notifyWaiters' = Tail(notifyWaiters)
              /\ UNCHANGED notifyPermit
         ELSE /\ notifyPermit' = 1
              /\ UNCHANGED <<wpc, notifyWaiters>>
    /\ UNCHANGED <<intra_threads, n_parser, n_reqs, queue, rxLock, sem, rxAlive, reply,
                   dequeues, hpc, hreq, hworker, hres>>

\* The requester drops the oneshot receiver before a response arrived.
DropReceiver(c) ==
    /\ c \in Chans
    /\ ppc[c] = "wait"
    /\ rxAlive[c]
    /\ reply[c] = NoReply
    /\ rxAlive' = [rxAlive EXCEPT ![c] = FALSE]
    /\ UNCHANGED <<intra_threads, n_parser, n_reqs, queue, notifyPermit, notifyWaiters,
                   rxLock, wpc, sem, ppc, reply, dequeues, hpc, hreq, hworker, hres>>

\* start_layout_parser: input_rx.lock().await
WorkerLock(w) ==
    /\ w \in Workers
    /\ wpc[w] = "lock"
    /\ rxLock = 0
    /\ rxLock' = w
    /\ wpc' = [wpc EXCEPT ![w] = "recv"]
    /\ UNCHANGED <<intra_threads, n_parser, n_reqs, queue, notifyPermit, notifyWaiters,
                   sem, ppc, rxAlive, reply, dequeues, hpc, hreq, hworker, hres>>

\* What is left in the channel after recv() returned its head.
QueueNotPopped(q) == q
QueueAfterRecv(q) == Tail(q)

\* start_layout_parser: lock.recv().await returns the oldest request, the
\* lock guard is dropped, and handle_request is spawned with the request.
WorkerRecv(w) ==
    /\ w \in Workers
    /\ wpc[w] = "recv"
    /\ rxLock = w
    /\ queue # <<>>
    /\ LET req == Head(queue) IN
         /\ dequeues' = [dequeues EXCEPT ![req.chan] = @ + 1]
         /\ hpc' = [hpc EXCEPT ![req.chan] = "acquire"]
         /\ hreq' = [hreq EXCEPT ![req.chan] = req]
         /\ hworker' = [hworker EXCEPT ![req.chan] = w]
    /\ queue' = QueueAfterRecv(queue)
    /\ rxLock' = 0
    /\ wpc' = [wpc EXCEPT ![w] = "notified"]
    /\ UNCHANGED <<intra_threads, n_parser, n_reqs, notifyPermit, notifyWaiters, sem,
                   ppc, rxAlive, reply, hres>>

\* start_layout_parser: notify.notified().await takes the stored permit, or
\* parks the loop until a notify_one reaches it.
WorkerNotified(w) ==
    /\ w \in Workers
    /\ wpc[w] = "notified"
    /\ IF notifyPermit = 1
         THEN /\ notifyPermit' = 0
              /\ wpc' = [wpc EXCEPT ![w] = "lock"]
              /\ UNCHANGED notifyWaiters
         ELSE /\ notifyWaiters' = Append(notifyWaiters, w)
              /\ wpc' = [wpc EXCEPT ![w] = "parked"]
              /\ UNCHANGED notifyPermit
    /\ UNCHANGED <<intra_threads, n_parser, n_reqs, queue, rxLock, sem, ppc, rxAlive,
                   reply, dequeues, hpc, hreq, hworker, hres>>

\* handle_request: let _permit = s.acquire().await.unwrap(), on the semaphore
\* of the worker loop that spawned the task.
HandlerAcquire(c) ==
    /\ c \in Chans
    /\ hpc[c] = "acquire"
    /\ sem[hworker[c]] > 0
    /\ sem' = [sem EXCEPT ![hworker[c]] = @ - 1]
    /\ hpc' = [hpc EXCEPT ![c] = "infer"]
    /\ UNCHANGED <<intra_threads, n_parser, n_reqs, queue, notifyPermit, notifyWaiters,
                   rxLock, wpc, ppc, rxAlive, reply, dequeues, hreq, hworker, hres>>

\* The semaphore after drop(_permit).
PermitLeaked(n) == n
PermitDropped(n) == n + 1

\* handle_request: parser.parse_layout_async(..).await completes, with the
\* layout boxes or with an error, and drop(_permit) follows at once.
HandlerInferDone(c) ==
    /\ c \in Chans
    /\ hpc[c] = "infer"
    /\ \E res \in {"ok", "err"} : hres' = [hres EXCEPT ![c] = res]
    /\ sem' = [sem EXCEPT ![hworker[c]] = PermitDropped(@)]
    /\ hpc' = [hpc EXCEPT ![c] = "respond"]
    /\ UNCHANGED <<intra_threads, n_parser, n_reqs, queue, notifyPermit, notifyWaiters,
                   rxLock, wpc, ppc, rxAlive, reply, dequeues, hreq, hworker>>

\* The task a failed .expect("can't send parsed result over oneshot chan")
\* unwinds: handle_request runs in a task of its own (tokio::spawn), so the
\* panic ends that task and the worker loop is untouched.
SendFailureInWorkerLoop(c) ==
    /\ hpc' = [hpc EXCEPT ![c] = "panicked"]
    /\ wpc' = [wpc EXCEPT ![hworker[c]] = "crashed"]
SendFailure(c) ==
    /\ hpc' = [hpc EXCEPT ![c] = "panicked"]
    /\ wpc' = wpc

\* handle_request: metadata.response_tx.send(layout_result).expect(..); the
\* task ends and its locals are gone.
HandlerRespond(c) ==
    /\ c \in Chans
    /\ hpc[c] = "respond"
    /\ IF rxAlive[hreq[c].chan]
         THEN /\ reply' = [reply EXCEPT ![hreq[c].chan] = ParseLayoutResponse(hreq[c], hres[c])]
              /\ hpc' = [hpc EXCEPT ![c] = "done"]
              /\ UNCHANGED wpc
         ELSE /\ SendFailure(c)
              /\ UNCHANGED reply
    /\ hres' = [hres EXCEPT ![c] = "none"]
    /\ hreq' = [hreq EXCEPT ![c] = NoReq]
    /\ hworker' = [hworker EXCEPT ![c] = 0]
    /\ UNCHANGED <<intra_threads, n_parser, n_reqs, queue, notifyPermit, notifyWaiters,
                   rxLock, sem, ppc, rxAlive, dequeues>>

LayoutNext ==
    \/ \E c \in Chans : PushSend(c) /\ UNCHANGED nonLayoutVars
    \/ \E c \in Chans : PushNotify(c) /\ UNCHANGED nonLayoutVars
    \/ \E c \in Chans : DropReceiver(c) /\ UNCHANGED nonLayoutVars
    \/ \E w \in Workers : WorkerLock(w) /\ UNCHANGED nonLayoutVars
    \/ \E w \in Workers : WorkerRecv(w) /\ UNCHANGED nonLayoutVars
    \/ \E w \in Workers : WorkerNotified(w) /\ UNCHANGED nonLayoutVars
    \/ \E c \in Chans : HandlerAcquire(c) /\ UNCHANGED nonLayoutVars
    \/ \E c \in Chans : HandlerInferDone(c) /\ UNCHANGED nonLayoutVars
    \/ \E c \in Chans : HandlerRespond(c) /\ UNCHANGED nonLayoutVars

(***************************************************************************)
(* Async inference future                                                  *)
(***************************************************************************)
\* infer_async_inner returned Ok(InferenceFut::new(async_inner)): the cell is
\* empty, no waker is stored, the future and the leaked context each hold the
\* inner, the run is in flight and the awaiting task is about to poll.
FutInit ==
    /\ value = "none"
    /\ waker = "none"
    /\ did_receive = FALSE
    /\ innerRefs = 2
    /\ fpc = "idle"
    /\ taken = "none"
    /\ scheduled = TRUE
    /\ cpc = "inflight"
    /\ wakes = 0

\* The component is not part of the run.
FutIdle ==
    /\ value = "none"
    /\ waker = "none"
    /\ did_receive = FALSE
    /\ innerRefs = 0
    /\ fpc = "absent"
    /\ taken = "none"
    /\ scheduled = FALSE
    /\ cpc = "absent"
    /\ wakes = 0

\* The executor polls the task that awaits the future.
PollStart ==
    /\ fpc \in {"idle", "pending"}
    /\ scheduled
    /\ scheduled' = FALSE
    /\ fpc' = "try_take"
    /\ UNCHANGED <<value, waker, did_receive, innerRefs, taken, cpc, wakes>>

\* Something other than the callback wakes the task while it is pending.
SpuriousWake ==
    /\ fpc = "pending"
    /\ ~scheduled
    /\ scheduled' = TRUE
    /\ UNCHANGED <<value, waker, did_receive, innerRefs, fpc, taken, cpc, wakes>>

\* try_take, the read of Option::take: unsafe { &mut *self.value.get() }
TryTakeRead ==
    /\ fpc = "try_take"
    /\ taken' = value
    /\ fpc' = "take_clear"
    /\ UNCHANGED <<value, waker, did_receive, innerRefs, scheduled, cpc, wakes>>

\* try_take, the write of Option::take (None is left in the cell), then
\* poll's branch: Ready with the value, or on to set_waker.
TryTakeClear ==
    /\ fpc = "take_clear"
    /\ value' = "none"
    /\ IF taken # "none"
         THEN /\ did_receive' = TRUE
              /\ fpc' = "ready"
         ELSE /\ fpc' = "set_waker"
              /\ UNCHANGED did_receive
    /\ UNCHANGED <<waker, innerRefs, taken, scheduled, cpc, wakes>>

\* poll: this.inner.set_waker(Some(cx.waker())); Poll::Pending
PollSetWaker ==
    /\ fpc = "set_waker"
    /\ waker' = "set"
    /\ fpc' = "pending"
    /\ UNCHANGED <<value, did_receive, innerRefs, taken, scheduled, cpc, wakes>>

\* The waker slot after Drop for InferenceFut ran on a future that had not
\* received: self.inner.set_waker(None).
WakerKeptOnDrop(w) == w
WakerAfterDrop(w) == "none"

\* Drop for InferenceFut, between polls; the future's Arc is released.
DropFut ==
    /\ fpc \in {"idle", "pending", "ready"}
    /\ waker' = IF did_receive THEN waker ELSE WakerAfterDrop(waker)
    /\ fpc' = "dropped"
    /\ scheduled' = FALSE
    /\ innerRefs' = innerRefs - 1
    /\ UNCHANGED <<value, did_receive, taken, cpc, wakes>>

\* async_callback: Box::from_raw(user_data), then ctx.inner.emplace_value with
\* the error of the status or with the outputs.
CallbackEmplace ==
    /\ cpc = "inflight"
    /\ \E res \in {"ok", "err"} : value' = res
    /\ cpc' = "wake"
    /\ UNCHANGED <<waker, did_receive, innerRefs, fpc, taken, scheduled, wakes>>

\* async_callback: ctx.inner.wake() takes the stored waker under the mutex and
\* wakes it; the callback returns and the context (and its Arc) is dropped.
CallbackWake ==
    /\ cpc = "wake"
    /\ IF waker = "set"
         THEN /\ waker' = "none"
              /\ wakes' = wakes + 1
              /\ scheduled' = (fpc # "dropped" /\ fpc # "ready")
         ELSE UNCHANGED <<waker, wakes, scheduled>>
    /\ cpc' = "done"
    /\ innerRefs' = innerRefs - 1
    /\ UNCHANGED <<value, did_receive, fpc, taken>>

FutNext ==
    \/ PollStart /\ UNCHANGED nonFutVars
    \/ SpuriousWake /\ UNCHANGED nonFutVars
    \/ TryTakeRead /\ UNCHANGED nonFutVars
    \/ TryTakeClear /\ UNCHANGED nonFutVars
    \/ PollSetWaker /\ UNCHANGED nonFutVars
    \/ DropFut /\ UNCHANGED nonFutVars
    \/ CallbackEmplace /\ UNCHANGED nonFutVars
    \/ CallbackWake /\ UNCHANGED nonFutVars

(***************************************************************************)
(* Buffer pool and submissions                                             *)
(***************************************************************************)
Tensors == 1..PoolSize
Threads == 1..MaxThreads

\* The pool starts with its fixed set of preallocated tensors; no thread is
\* in get or put and nothing was submitted.
PoolInit ==
    /\ store = [i \in 1..PoolSize |-> i]
    /\ poolLock = 0
    /\ tpc = [t \in Threads |-> "idle"]
    /\ held = [t \in Threads |-> 0]
    /\ ctx = [x \in Tensors |-> "none"]

\* The component is not part of the run.
PoolIdle ==
    /\ store = <<>>
    /\ poolLock = 0
    /\ tpc = <<>>
    /\ held = <<>>
    /\ ctx = <<>>

\* A submission starts: the thread calls BufferPool::get for its input tensor.
GetCall(t) ==
    /\ tpc[t] = "idle"
    /\ tpc' = [tpc EXCEPT ![t] = "get_lock"]
    /\ UNCHANGED <<store, poolLock, held, ctx>>

\* get: self.store.lock().unwrap(), or the re-lock at the end of cvar.wait
GetLock(t) ==
    /\ tpc[t] \in {"get_lock", "cv_relock"}
    /\ poolLock = 0
    /\ poolLock' = t
    /\ tpc' = [tpc EXCEPT ![t] = "get_pop"]
    /\ UNCHANGED <<store, held, ctx>>

\* The Vec after store.pop() returned its last element.
StoreNotPopped(st) == st
StoreAfterPop(st) == SubSeq(st, 1, Len(st) - 1)

\* get, one turn of the loop under the lock: store.pop() returns a tensor
\* and get returns it (the guard is dropped), or the store is empty and
\* cvar.wait releases the lock and blocks.
GetPop(t) ==
    /\ tpc[t] = "get_pop"
    /\ poolLock = t
    /\ IF store # <<>>
         THEN /\ held' = [held EXCEPT ![t] = store[Len(store)]]
              /\ store' = StoreAfterPop(store)
              /\ tpc' = [tpc EXCEPT ![t] = "holding"]
         ELSE /\ tpc' = [tpc EXCEPT ![t] = "cv_wait"]
              /\ UNCHANGED <<store, held>>
    /\ poolLock' = 0
    /\ UNCHANGED ctx

\* Condvar::wait may return without a notification.
SpuriousWakeup(t) ==
    /\ tpc[t] = "cv_wait"
    /\ tpc' = [tpc EXCEPT ![t] = "cv_relock"]
    /\ UNCHANGED <<store, poolLock, held, ctx>>

\* A thread gives its tensor back: put, self.store.lock()
PutLock(t) ==
    /\ tpc[t] = "holding"
    /\ poolLock = 0
    /\ poolLock' = t
    /\ tpc' = [tpc EXCEPT ![t] = "put_push"]
    /\ UNCHANGED <<store, held, ctx>>

\* self.cvar.notify_one(): the positions of the threads once one of those
\* blocked in cvar.wait, if there is one, was woken.
NotNotified(tp) == {tp}
NotifyOne(tp) ==
    IF \E u \in Threads : tp[u] = "cv_wait"
      THEN {[tp EXCEPT ![u] = "cv_relock"] : u \in {v \in Threads : tp[v] = "cv_wait"}}
      ELSE {tp}

\* put under the lock: store.push(buffer); self.cvar.notify_one(); Ok(())
PutPush(t) ==
    /\ tpc[t] = "put_push"
    /\ poolLock = t
    /\ store' = Append(store, held[t])
    /\ held' = [held EXCEPT ![t] = 0]
    /\ poolLock' = 0
    /\ tpc' \in NotifyOne([tpc EXCEPT ![t] = "idle"])
    /\ UNCHANGED ctx

\* infer_async_inner with the tensor as input_values: the context is leaked
\* with Box::leak and owns the tensor; RunAsync accepts the run (the callback
\* will fire) or returns an error status and `?` returns early.
Submit(t) ==
    /\ tpc[t] = "holding"
    /\ \E accepted \in BOOLEAN :
         ctx' = [ctx EXCEPT ![held[t]] = IF accepted THEN "inflight" ELSE "leaked"]
    /\ held' = [held EXCEPT ![t] = 0]
    /\ tpc' = [tpc EXCEPT ![t] = "idle"]
    /\ UNCHANGED <<store, poolLock>>

\* The store after async_callback ran for the context that owns tensor x:
\* the context is rebuilt with Box::from_raw and dropped at the return, its
\* input_values with it; BufferPool::put is not called.
StoreAfterCallback(st, x) == st

\* async_callback, for the run whose context owns tensor x.
Callback(x) ==
    /\ ctx[x] = "inflight"
    /\ ctx' = [ctx EXCEPT ![x] = "reclaimed"]
    /\ store' = StoreAfterCallback(store, x)
    /\ UNCHANGED <<poolLock, tpc, held>>

PoolNext ==
    \/ \E t \in Threads : GetCall(t) /\ UNCHANGED nonPoolVars
    \/ \E t \in Threads : GetLock(t) /\ UNCHANGED nonPoolVars
    \/ \E t \in Threads : GetPop(t) /\ UNCHANGED nonPoolVars
    \/ \E t \in Threads : SpuriousWakeup(t) /\ UNCHANGED nonPoolVars
    \/ \E t \in Threads : PutLock(t) /\ UNCHANGED nonPoolVars
    \/ \E t \in Threads : PutPush(t) /\ UNCHANGED nonPoolVars
    \/ \E t \in Threads : Submit(t) /\ UNCHANGED nonPoolVars
    \/ \E x \in Tensors : Callback(x) /\ UNCHANGED nonPoolVars

(***************************************************************************)
(* Native parser                                                           *)
(***************************************************************************)
NativeReqs == 1..n_native
NativeIds == 1..(MaxNativeLoad - 1)

\* Page counts of the documents of the run.
DocPages == 0..(MaxNativeLoad - n_native)

\* page_range: None, or a Range<usize> start..end (any two numbers).
NoRange == <<-1, -1>>
RangeInputs ==
    {NoRange} \cup ((0..(MaxNativeLoad - n_native + 1)) \X (0..(MaxNativeLoad - n_native + 1)))

\* a..b as the sequence a, a+1, .., b-1
RangeSeq(a, b) == [i \in 1..(b - a) |-> a + i - 1]

\* document.pages_mut().iter().enumerate(): the ids of the pages of a
\* document of n pages, and what pages.drain(range) keeps of them.
PositionInRange(n, range) ==
    IF range = NoRange THEN RangeSeq(0, n) ELSE RangeSeq(0, range[2] - range[1])
SelectedPages(n, range) ==
    IF range = NoRange THEN RangeSeq(0, n) ELSE RangeSeq(range[1], range[2])

\* Outcome of the first part of handle_parse_native_req, up to the loop:
\* load_pdf_from_byte_slice fails; the range's end exceeds the page count;
\* Vec::drain panics on a range whose start is greater than its end; or the
\* pages are selected.
Selection(openable, n, range) ==
    IF ~openable THEN "open_failed"
    ELSE IF range # NoRange /\ range[2] > n THEN "range_failed"
    ELSE IF range # NoRange /\ range[1] > range[2] THEN "panicked"
    ELSE "selected"

NoCur == [req |-> 0, n_pages |-> 0, range |-> NoRange, pages |-> <<>>,
          sent |-> <<>>, result |-> "none"]

\* Items of a result stream: Ok(ParseNativePageResult {page_id, ..}), the Err
\* of a page that failed to parse (page_id records the page it stands for;
\* the error itself carries none), or Err(ParseNativeError).
PageItem(p, ok) == [kind |-> IF ok THEN "page" ELSE "page_err", page_id |-> p]
NativeErrorItem == [kind |-> "native_error", page_id |-> -1]

NativeStart ==
    /\ nqueue = <<>>
    /\ npushed = [r \in NativeReqs |-> "no"]
    /\ npc = "recv"
    /\ cur = NoCur
    /\ nchan = [r \in NativeReqs |-> <<>>]
    /\ nclosed = [r \in NativeReqs |-> FALSE]
    /\ nrx = [r \in NativeReqs |-> "none"]

NativeInit == n_native \in NativeIds /\ NativeStart

\* The component is not part of the run.
NativeIdle ==
    /\ n_native = 0
    /\ nqueue = <<>>
    /\ npushed = <<>>
    /\ npc = "absent"
    /\ cur = NoCur
    /\ nchan = <<>>
    /\ nclosed = <<>>
    /\ nrx = <<>>

\* parse_doc_pages: mpsc::channel(32), ParseNativeRequest::new, then
\* native_queue.push(req).await: the request enters the bounded queue, or the
\* send fails because the worker thread (the receiver) is gone.  Requests
\* are numbered in the order of their pushes.
NativePush(r) ==
    /\ r \in NativeReqs
    /\ npushed[r] = "no"
    /\ \A q \in NativeReqs : q < r => npushed[q] # "no"
    /\ IF npc = "crashed"
         THEN /\ npushed' = [npushed EXCEPT ![r] = "err"]
              /\ nclosed' = [nclosed EXCEPT ![r] = TRUE]
              /\ UNCHANGED <<nqueue, nrx>>
         ELSE /\ Len(nqueue) < MAX_CONCURRENT_NATIVE_REQS
              /\ npushed' = [npushed EXCEPT ![r] = "ok"]
              /\ nqueue' = Append(nqueue, r)
              /\ nrx' = [nrx EXCEPT ![r] = "receiving"]
              /\ UNCHANGED nclosed
    /\ UNCHANGED <<n_native, npc, cur, nchan>>

\* input_rx.blocking_recv(): the oldest request of the queue.
NewestRequest(q) == q[Len(q)]
NextRequest(q) == Head(q)

\* The stream of request r once its sender_tx was dropped.
SenderKept(cl, r) == cl
SenderDropped(cl, r) == [cl EXCEPT ![r] = TRUE]

\* start_native_parser: input_rx.blocking_recv() returns the oldest request;
\* handle_parse_native_req loads the document and selects the pages.  The
\* request's page_range and what the document bytes hold are the inputs.
\* A failure before the loop is returned with `?` or `return Err`: nothing
\* is sent on sender_tx, which is dropped.  A panic of drain unwinds the
\* worker thread: input_rx is dropped, and with it the requests still in the
\* queue and their sender_tx.
NativeRecvWith(range, openable, n) ==
    /\ npc = "recv"
    /\ nqueue # <<>>
    /\ LET r == NextRequest(nqueue)
           outcome == Selection(openable, n, range) IN
           /\ nqueue' = IF outcome = "panicked" THEN <<>> ELSE Tail(nqueue)
           /\ IF outcome = "selected"
                THEN /\ cur' = [req |-> r, n_pages |-> n, range |-> range,
                                pages |-> SelectedPages(n, range),
                                sent |-> <<>>, result |-> "none"]
                     /\ npc' = "loop"
                     /\ UNCHANGED <<nchan, nclosed>>
                ELSE /\ cur' = [req |-> r, n_pages |-> n, range |-> range,
                                pages |-> <<>>, sent |-> <<>>,
                                result |-> outcome]
                     /\ npc' = IF outcome = "panicked" THEN "crashed" ELSE "returned"
                     /\ nclosed' = [q \in NativeReqs |->
                                      IF q = r \/ (outcome = "panicked" /\ npushed[q] = "ok")
                                        THEN TRUE ELSE nclosed[q]]
                     /\ UNCHANGED nchan
    /\ UNCHANGED <<n_native, npushed, nrx>>

\* The inputs of a request: its page_range and what its doc_data holds (a
\* document that cannot be opened has no pages to count).
NativeRecv ==
    \E range \in RangeInputs, openable \in BOOLEAN, n \in DocPages :
        /\ openable \/ n = 0
        /\ NativeRecvWith(range, openable, n)

\* The pages left to parse once the result of the first one was sent, Ok or
\* Err alike: the loop goes on to the next page.
StopAfterPageError(pages, ok) == IF ok THEN Tail(pages) ELSE <<>>
RemainingAfterSend(pages, ok) == Tail(pages)

\* blocking_send goes through when the channel holds fewer items than its
\* capacity, and waits otherwise.
AlwaysRoom(ch) == TRUE
HasRoom(ch) == Len(ch) < NativeChanCap

\* handle_parse_native_req, one turn of the loop: parse_page_native(page_id,
\* ..) succeeds or fails, and sender_tx.blocking_send(parsing_result) waits
\* for room in the channel, or fails because the receiver is gone (the
\* function returns Err and sender_tx is dropped).
NativeSendPageWith(oks) ==
    /\ npc = "loop"
    /\ cur.pages # <<>>
    /\ LET r == cur.req IN
         IF nrx[r] # "receiving"
           THEN /\ cur' = [cur EXCEPT !.result = "send_failed"]
                /\ npc' = "returned"
                /\ nclosed' = [nclosed EXCEPT ![r] = TRUE]
                /\ UNCHANGED nchan
           ELSE /\ HasRoom(nchan[r])
                /\ \E ok \in oks :
                     LET item == PageItem(Head(cur.pages), ok) IN
                       /\ nchan' = [nchan EXCEPT ![r] = Append(@, item)]
                       /\ cur' = [cur EXCEPT !.pages = RemainingAfterSend(@, ok),
                                             !.sent = Append(@, item)]
                /\ UNCHANGED <<npc, nclosed>>
    /\ UNCHANGED <<n_native, nqueue, npushed, nrx>>

\* Any page may parse or fail to.
NativeSendPage == NativeSendPageWith(BOOLEAN)

\* handle_parse_native_req: the loop is over, Ok(()); sender_tx is dropped.
NativeReturnOk ==
    /\ npc = "loop"
    /\ cur.pages = <<>>
    /\ cur' = [cur EXCEPT !.result = "ok"]
    /\ npc' = "returned"
    /\ nclosed' = SenderDropped(nclosed, cur.req)
    /\ UNCHANGED <<n_native, nqueue, npushed, nchan, nrx>>

\* start_native_parser: the match on the result (eprintln! on Err), and the
\* loop goes back to blocking_recv.
NativeLoop ==
    /\ npc = "returned"
    /\ npc' = "recv"
    /\ cur' = NoCur
    /\ UNCHANGED <<n_native, nqueue, npushed, nchan, nclosed, nrx>>

\* parse_doc_pages: native_rx.recv().await returns the next item, an Ok page
\* for which a fusion task is spawned or an Err that hits todo!() (the
\* panic unwinds and drops native_rx), or None once the stream has ended and
\* is empty.
ConsumerRecv(r) ==
    /\ r \in NativeReqs
    /\ nrx[r] = "receiving"
    /\ IF nchan[r] # <<>>
         THEN IF Head(nchan[r]).kind = "page"
                THEN /\ nchan' = [nchan EXCEPT ![r] = Tail(@)]
                     /\ UNCHANGED nrx
                ELSE /\ nchan' = [nchan EXCEPT ![r] = <<>>]
                     /\ nrx' = [nrx EXCEPT ![r] = "panicked"]
         ELSE /\ nclosed[r]
              /\ nrx' = [nrx EXCEPT ![r] = "done"]
              /\ UNCHANGED nchan
    /\ UNCHANGED <<n_native, nqueue, npushed, npc, cur, nclosed>>

\* The parse_document future is dropped: native_rx goes with it, and so do
\* the items still in the channel.
ConsumerDrop(r) ==
    /\ r \in NativeReqs
    /\ nrx[r] = "receiving"
    /\ nrx' = [nrx EXCEPT ![r] = "dropped"]
    /\ nchan' = [nchan EXCEPT ![r] = <<>>]
    /\ UNCHANGED <<n_native, nqueue, npushed, npc, cur, nclosed>>

NativeNext ==
    \/ \E r \in NativeIds : NativePush(r) /\ UNCHANGED nonNativeVars
    \/ NativeRecv /\ UNCHANGED nonNativeVars
    \/ NativeSendPage /\ UNCHANGED nonNativeVars
    \/ NativeReturnOk /\ UNCHANGED nonNativeVars
    \/ NativeLoop /\ UNCHANGED nonNativeVars
    \/ \E r \in NativeIds : ConsumerRecv(r) /\ UNCHANGED nonNativeVars
    \/ \E r \in NativeIds : ConsumerDrop(r) /\ UNCHANGED nonNativeVars

(***************************************************************************)
(* The native parser under load                                            *)
(***************************************************************************)
\* Two runs that fill the channels: one request for a document with more
\* pages than its result channel holds, or more requests than the request
\* queue holds, each for a document of two pages.  Every page parses.
SaturationReqs == 1..(MAX_CONCURRENT_NATIVE_REQS + 2)
SaturationPages == IF n_native = 1 THEN NativeChanCap + 2 ELSE 2

SaturationInit ==
    /\ n_native \in {1, MAX_CONCURRENT_NATIVE_REQS + 2}
    /\ NativeStart

\* Only the consumer of the first request receives (or goes away); the
\* others have not polled their stream yet.
SaturationNext ==
    \/ \E r \in SaturationReqs : NativePush(r) /\ UNCHANGED nonNativeVars
    \/ NativeRecvWith(NoRange, TRUE, SaturationPages) /\ UNCHANGED nonNativeVars
    \/ NativeSendPageWith({TRUE}) /\ UNCHANGED nonNativeVars
    \/ NativeReturnOk /\ UNCHANGED nonNativeVars
    \/ NativeLoop /\ UNCHANGED nonNativeVars
    \/ ConsumerRecv(1) /\ UNCHANGED nonNativeVars
    \/ ConsumerDrop(1) /\ UNCHANGED nonNativeVars

(***************************************************************************)
(* Document orchestrator                                                   *)
(***************************************************************************)
NoDoc == [range |-> NoRange, openable |-> FALSE, n_pages |-> 0]

\* id of the StructuredPage that parse_page_full builds from the native
\* result of page page_id.
StructuredPageId(page_id) == page_id

\* s with x inserted before the first element greater than x.
InsertAtEnd(s, x) == Append(s, x)
RECURSIVE InsertById(_, _)
InsertById(s, x) ==
    IF s = <<>> THEN <<x>>
    ELSE IF x < Head(s) THEN <<x>> \o s
    ELSE <<Head(s)>> \o InsertById(Tail(s), x)

\* parsed_pages.sort_by(|p1, p2| p1.id.cmp(&p2.id)): a stable sort by id.
NotSorted(s) == s
RECURSIVE SortById(_)
SortById(s) ==
    IF s = <<>> THEN <<>>
    ELSE InsertById(SortById(SubSeq(s, 1, Len(s) - 1)), s[Len(s)])

\* elements of the StructuredPage of page p (what its fusion produced), and
\* all_elements of parse_document: the elements of the pages, page by page.
PageElements(p) == <<[page_id |-> p, index |-> 0], [page_id |-> p, index |-> 1]>>
RECURSIVE AllElements(_)
AllElements(pages) ==
    IF pages = <<>> THEN <<>>
    ELSE PageElements(Head(pages)) \o AllElements(Tail(pages))

DocInit ==
    /\ ddoc = NoDoc
    /\ dpc = "start"
    /\ tasks = {}
    /\ parsed_pages = <<>>
    /\ joined = <<>>
    /\ dresult = "none"

\* No parse_document call is part of the run.
DocIdle ==
    /\ ddoc = NoDoc
    /\ dpc = "absent"
    /\ tasks = {}
    /\ parsed_pages = <<>>
    /\ joined = <<>>
    /\ dresult = "none"

\* parse_document calls parse_doc_pages: the JoinSet, the result channel,
\* the request and native_queue.push(req).await? (an Err of push is the
\* Err of parse_document).
DocPush ==
    /\ dpc = "start"
    /\ \E range \in RangeInputs, openable \in BOOLEAN, n \in DocPages :
         /\ openable \/ n = 0
         /\ ddoc' = [range |-> range, openable |-> openable, n_pages |-> n]
    /\ NativePush(1)
    /\ IF npc = "crashed"
         THEN dpc' = "returned" /\ dresult' = "parse_native_error"
         ELSE dpc' = "recv" /\ UNCHANGED dresult
    /\ UNCHANGED <<tasks, parsed_pages, joined>>

\* The native worker receives the request of this parse_document call.
DocNativeRecv ==
    /\ NativeRecvWith(ddoc.range, ddoc.openable, ddoc.n_pages)
    /\ UNCHANGED docVars

\* parse_doc_pages, one turn of the receive loop: an Ok page gets its fusion
\* task spawned on the JoinSet; an Err hits todo!() and the panic unwinds
\* through parse_document, dropping the JoinSet (its tasks are aborted) and
\* native_rx; None ends the loop.
DocRecv ==
    /\ dpc = "recv"
    /\ ConsumerRecv(1)
    /\ IF nchan[1] # <<>>
         THEN IF Head(nchan[1]).kind = "page"
                THEN /\ tasks' = tasks \cup {Head(nchan[1]).page_id}
                     /\ UNCHANGED <<dpc, dresult>>
                ELSE /\ tasks' = {}
                     /\ dpc' = "returned"
                     /\ dresult' = "panicked"
         ELSE /\ dpc' = "join"
              /\ UNCHANGED <<tasks, dresult>>
    /\ UNCHANGED <<ddoc, parsed_pages, joined>>

\* parse_doc_pages, one turn of the join loop: set.join_next() returns the
\* tasks in the order they complete, whatever order they were spawned in;
\* the task returned Ok(page), returned Err, or panicked (a JoinError); the
\* last two are logged with tracing::error!.
DocJoin ==
    /\ dpc = "join"
    /\ \E p \in tasks, outcome \in {"page", "error", "join_error"} :
         /\ tasks' = tasks \ {p}
         /\ joined' = Append(joined, [page_id |-> p, outcome |-> outcome])
         /\ parsed_pages' = IF outcome = "page"
                               THEN Append(parsed_pages, StructuredPageId(p))
                               ELSE parsed_pages
    /\ UNCHANGED <<ddoc, dpc, dresult, nativeVars>>

\* parse_doc_pages: the JoinSet is empty, the pages are sorted by id and
\* Ok(parsed_pages) is returned.
DocPagesReturn ==
    /\ dpc = "join"
    /\ tasks = {}
    /\ parsed_pages' = SortById(parsed_pages)
    /\ dpc' = "build"
    /\ UNCHANGED <<ddoc, tasks, joined, dresult, nativeVars>>

\* parse_document after parse_doc_pages returned Ok: the elements, the title
\* levels, the pages, and merge_elements_into_blocks(..)?, which returns the
\* blocks or an error.
DocBuild ==
    /\ dpc = "build"
    /\ \E merged \in BOOLEAN :
         dresult' = IF merged THEN "ok" ELSE "block_merge_error"
    /\ dpc' = "returned"
    /\ UNCHANGED <<ddoc, tasks, parsed_pages, joined, nativeVars>>

\* The JoinSet of parse_doc_pages once the parse_document future was
\* dropped: `set` is a local of the future, and the Drop of a JoinSet aborts
\* every task in it.
TasksKeptOnDrop(set) == set
TasksAfterDrop(set) == {}

\* The caller drops the parse_document future at one of its awaits, in the
\* receive loop or in the join loop: the JoinSet goes, and native_rx with it.
DocDrop ==
    /\ dpc \in {"recv", "join"}
    /\ tasks' = TasksAfterDrop(tasks)
    /\ dpc' = "dropped"
    /\ IF nrx[1] = "receiving" THEN ConsumerDrop(1) ELSE UNCHANGED nativeVars
    /\ UNCHANGED <<ddoc, parsed_pages, joined, dresult>>

\* parse_task: the pages page_callback was invoked with. A task invokes it
\* once parse_page_full has returned, with Ok or with Err, and before it
\* returns itself; a task that panicked or was aborted has not come to it.
CalledBack ==
    {joined[i].page_id : i \in {j \in 1..Len(joined) : joined[j].outcome # "join_error"}}

DocNext ==
    \/ DocPush /\ UNCHANGED nonDocVars
    \/ DocNativeRecv /\ UNCHANGED nonDocVars
    \/ NativeSendPage /\ UNCHANGED nonNativeVars
    \/ NativeReturnOk /\ UNCHANGED nonNativeVars
    \/ NativeLoop /\ UNCHANGED nonNativeVars
    \/ DocRecv /\ UNCHANGED nonDocVars
    \/ DocJoin /\ UNCHANGED nonDocVars
    \/ DocPagesReturn /\ UNCHANGED nonDocVars
    \/ DocBuild /\ UNCHANGED nonDocVars
    \/ DocDrop /\ UNCHANGED nonDocVars

(***************************************************************************)
(* Blocks                                                                  *)
(***************************************************************************)
\* Kinds of blocks (enum BlockType) and the kinds of elements offered to
\* Block::merge.
BlockKinds == {"TextBlock", "ListBlock", "Header", "Footer", "Title", "Image", "Table"}
ElementKinds == {"Text", "ListItem", "Header", "Footer", "Title"}

\* Strings are sequences of characters.
Whitespace == {" ", "\n", "\t"}
Texts == {<<"a">>, <<" ", "a", " ", "b", " ">>, <<" ">>}

\* Bounding boxes and BBox::merge: the smallest box around both.
Boxes == {[x0 |-> 0, y0 |-> 0, x1 |-> 1, y1 |-> 1],
          [x0 |-> 1, y0 |-> 1, x1 |-> 2, y1 |-> 2]}
BBoxMerge(self, other) ==
    LET Min(a, b) == IF a <= b THEN a ELSE b
        Max(a, b) == IF a >= b THEN a ELSE b
    IN  [x0 |-> Min(self.x0, other.x0), y0 |-> Min(self.y0, other.y0),
         x1 |-> Max(self.x1, other.x1), y1 |-> Max(self.y1, other.y1)]

\* str::trim: the string without its leading and trailing whitespace.
RECURSIVE TrimStart(_)
TrimStart(s) ==
    IF s # <<>> /\ Head(s) \in Whitespace THEN TrimStart(Tail(s)) ELSE s
RECURSIVE TrimEnd(_)
TrimEnd(s) ==
    IF s # <<>> /\ s[Len(s)] \in Whitespace
      THEN TrimEnd(SubSeq(s, 1, Len(s) - 1))
      ELSE s
NotTrimmed(s) == s
Trim(s) == TrimEnd(TrimStart(s))

\* The if-let of each branch of Block::merge: the element kind the block
\* absorbs. Title, Image and Table have no such test.
AbsorbsAnyKind(kind, ekind) == TRUE
Absorbs(kind, ekind) ==
    \/ kind = "TextBlock" /\ ekind = "Text"
    \/ kind = "ListBlock" /\ ekind = "ListItem"
    \/ kind = "Header" /\ ekind = "Header"
    \/ kind = "Footer" /\ ekind = "Footer"

\* self.bbox.merge(&element.bbox), the first statement of every branch that
\* absorbs.
BBoxKept(b, e) == b.bbox
BBoxAfterMerge(b, e) == BBoxMerge(b.bbox, e.bbox)

\* The text of the block after the branch: TextBlock pushes '\n' and the
\* element's text, Header and Footer push the element's text.
TextAfterMerge(b, e) ==
    IF b.kind = "TextBlock" THEN b.text \o <<"\n">> \o e.text
    ELSE IF b.kind \in {"Header", "Footer"} THEN b.text \o e.text
    ELSE b.text

\* The items of the block after the branch: ListBlock pushes the trimmed
\* text of the element.
ItemsAfterMerge(b, e) ==
    IF b.kind = "ListBlock" THEN Append(b.items, Trim(e.text)) ELSE b.items

\* The block after a branch whose if-let failed: the else arm is the bail!
\* alone, the calls that write the block are in the other arm.
BBoxMergedBeforeTest(b, e) == [b EXCEPT !.bbox = BBoxMerge(b.bbox, e.bbox)]
BlockAfterRefusal(b, e) == b

\* The Err of a branch whose if-let fails: bail! with a message.
MergeError(kind) ==
    [type |-> "anyhow",
     msg |-> CASE kind = "TextBlock" -> "can't merge element in textblock"
               [] kind = "ListBlock" -> "can't merge element in Listblock"
               [] kind = "Header" -> "can't merge element in Header"
               [] OTHER -> "can't merge element in Footer"]
NoError == [type |-> "none", msg |-> ""]

\* A block as it is once built around its first element, on page 0.
BlockInit ==
    /\ \E kind \in BlockKinds, bbox \in Boxes :
         blk = [id |-> 0, kind |-> kind,
                text |-> IF kind = "ListBlock" THEN <<>> ELSE <<"a">>,
                items |-> IF kind = "ListBlock" THEN << <<"a">> >> ELSE <<>>,
                pages_id |-> <<0>>, bbox |-> bbox]
    /\ absorbed = <<>>
    /\ mres = [res |-> "none", error |-> NoError]

\* No block is part of the run.
BlockIdle ==
    /\ blk = [id |-> 0, kind |-> "Table", text |-> <<>>, items |-> <<>>,
              pages_id |-> <<0>>, bbox |-> [x0 |-> 0, y0 |-> 0, x1 |-> 0, y1 |-> 0]]
    /\ absorbed = <<>>
    /\ mres = [res |-> "done", error |-> NoError]

\* Block::merge(element): the branch of the block's kind. The elements of
\* a document come page by page: e is not of a page before the last element
\* that went into the block.
Merge(e) ==
    /\ mres.res \in {"none", "ok", "err"}
    /\ Absorbs(blk.kind, e.kind) => Len(absorbed) < MaxMerges
    /\ e.page_id >= (IF absorbed = <<>> THEN blk.pages_id[Len(blk.pages_id)]
                                         ELSE absorbed[Len(absorbed)].page_id)
    /\ IF blk.kind \in {"Title", "Image", "Table"}
         THEN \* todo!()
              /\ mres' = [res |-> "panic", error |-> NoError]
              /\ UNCHANGED <<blk, absorbed>>
         ELSE IF Absorbs(blk.kind, e.kind)
           THEN /\ blk' = [blk EXCEPT !.bbox = BBoxAfterMerge(blk, e),
                                      !.text = TextAfterMerge(blk, e),
                                      !.items = ItemsAfterMerge(blk, e)]
                /\ absorbed' = Append(absorbed, e)
                /\ mres' = [res |-> "ok", error |-> NoError]
           ELSE /\ mres' = [res |-> "err", error |-> MergeError(blk.kind)]
                /\ blk' = BlockAfterRefusal(blk, e)
                /\ UNCHANGED absorbed

BlockNext ==
    \E e \in [kind : ElementKinds, text : Texts, bbox : Boxes, page_id : 0..1] :
      Merge(e) /\ UNCHANGED nonBlockVars

(***************************************************************************)
(* Page ranges of the workers                                              *)
(***************************************************************************)
\* page_range.chunks(k): consecutive chunks of k elements, the last one
\* with what is left.
RECURSIVE Chunks(_, _)
Chunks(s, k) ==
    IF s = <<>> THEN <<>>
    ELSE IF Len(s) <= k THEN <<s>>
    ELSE <<SubSeq(s, 1, k)>> \o Chunks(SubSeq(s, k + 1, Len(s)), k)

\* The range the map closure builds from chunk c:
\* *c.first().unwrap()..*c.last().unwrap().
ChunkRange(c) == <<c[1], c[Len(c)]>>

\* The pages collected from the page_range argument.
CollectedRange(n_pages, page_range) ==
    IF page_range = NoRange THEN RangeSeq(0, n_pages)
    ELSE RangeSeq(page_range[1], page_range[2])

\* vec![(0..n_pages)]: a range a..b is the pair <<a, b>>.
NoRanges(n_pages) == <<>>
SingleRange(n_pages) == << <<0, n_pages>> >>

\* chunk_docs_range: the Vec it returns, or the panic of a division by zero.
chunk_docs_range(n_pages, n_workers, page_range) ==
    LET pages == CollectedRange(n_pages, page_range)
    IN  IF Len(pages) > n_workers
          THEN IF n_workers = 0 THEN [pc |-> "panicked", ranges |-> <<>>]
               ELSE LET chunks == Chunks(pages, Len(pages) \div n_workers)
                    IN  [pc |-> "returned",
                         ranges |-> [i \in 1..Len(chunks) |-> ChunkRange(chunks[i])]]
          ELSE [pc |-> "returned", ranges |-> SingleRange(n_pages)]

ChunkInit ==
    /\ \E n_pages \in 0..MaxChunkPages, n_workers \in 0..MaxWorkers,
          page_range \in {NoRange} \cup ((0..MaxChunkPages) \X (0..MaxChunkPages)) :
         cin = [n_pages |-> n_pages, n_workers |-> n_workers, page_range |-> page_range]
    /\ cout = [pc |-> "not_called", ranges |-> <<>>]

\* No chunk_docs_range call is part of the run.
ChunkIdle ==
    /\ cin = [n_pages |-> 0, n_workers |-> 0, page_range |-> NoRange]
    /\ cout = [pc |-> "absent", ranges |-> <<>>]

ChunkCall ==
    /\ cout.pc = "not_called"
    /\ cout' = chunk_docs_range(cin.n_pages, cin.n_workers, cin.page_range)
    /\ UNCHANGED cin

ChunkNext == ChunkCall /\ UNCHANGED nonChunkVars

(***************************************************************************)
(* The --page-range argument of the CLI                                    *)
(***************************************************************************)
\* The characters of the argument: digits, the separator, a blank, a sign
\* and a letter.
ArgChars == {"0", "1", "2", "-", " ", "+", "x"}
DecimalDigits == <<"0", "1", "2", "3", "4", "5", "6", "7", "8", "9">>

\* str::parse::<usize>: an optional '+', then one digit at least and digits
\* only, read from the left; -1 stands for the Err. (A value beyond
\* usize::MAX is an Err too; no argument of the model is that long.)
RECURSIVE ParseDigits(_, _)
ParseDigits(s, acc) ==
    IF s = <<>> THEN acc
    ELSE IF \A i \in 1..10 : DecimalDigits[i] # Head(s) THEN -1
    ELSE ParseDigits(Tail(s),
                     acc * 10 + (CHOOSE i \in 1..10 : DecimalDigits[i] = Head(s)) - 1)
ParseUsize(s) ==
    LET digits == IF s # <<>> /\ Head(s) = "+" THEN Tail(s) ELSE s
    IN  IF digits = <<>> THEN -1 ELSE ParseDigits(digits, 0)

\* start - 1: the zero-based start of the range.
OneBasedStart(start) == start
ZeroBasedStart(start) == start - 1

\* parse_page_range: split_once('-') splits at the first '-'; a number that
\* does not parse is the Err of `?`.
parse_page_range(str) ==
    LET Ok(start, end) == [pc |-> "ok", range |-> <<start, end>>]
        Err == [pc |-> "err", range |-> <<0, 0>>]
    IN  IF \E i \in 1..Len(str) : str[i] = "-"
          THEN LET i == CHOOSE k \in 1..Len(str) :
                          str[k] = "-" /\ \A j \in 1..(k - 1) : str[j] # "-"
                   start == ParseUsize(Trim(SubSeq(str, 1, i - 1)))
                   end == ParseUsize(Trim(SubSeq(str, i + 1, Len(str))))
               IN  IF start = -1 \/ end = -1 THEN Err
                   ELSE IF start > 0 /\ end >= start
                          THEN Ok(ZeroBasedStart(start), end)
                          ELSE Err
          ELSE LET page == ParseUsize(Trim(str))
               IN  IF page = -1 THEN Err
                   ELSE IF page > 0 THEN Ok(ZeroBasedStart(page), page)
                   ELSE Err

ArgInit ==
    /\ range_str \in UNION {[1..n -> ArgChars] : n \in 0..MaxArgLen}
    /\ prange = [pc |-> "not_called", range |-> <<0, 0>>]

\* No page range was given.
ArgIdle ==
    /\ range_str = <<>>
    /\ prange = [pc |-> "absent", range |-> <<0, 0>>]

ArgCall ==
    /\ prange.pc = "not_called"
    /\ prange' = parse_page_range(range_str)
    /\ UNCHANGED range_str

ArgNext == ArgCall /\ UNCHANGED nonArgVars

(***************************************************************************)
(* OCR lines                                                               *)
(***************************************************************************)
\* OCRLines::to_line
to_line(self) ==
    [text |-> self.text, bbox |-> self.bbox, rotation |-> 0, spans |-> <<>>]

\* An OCR line as parse_image_ocr returns it: its text, its confidence (in
\* percent) and its box.
OcrInit ==
    /\ ocr_line \in [text : Texts,
                     confidence : {0, 50, 100},
                     bbox : {b \in [x0 : 0..MaxCoord, y0 : 0..MaxCoord,
                                    x1 : 0..MaxCoord, y1 : 0..MaxCoord] :
                                b.x0 < b.x1 /\ b.y0 < b.y1}]
    /\ line = [pc |-> "not_called", line |-> to_line([text |-> <<>>, bbox |-> 0])]

\* No OCR ran.
OcrIdle ==
    /\ ocr_line = [text |-> <<>>, confidence |-> 0, bbox |-> 0]
    /\ line = [pc |-> "absent", line |-> to_line([text |-> <<>>, bbox |-> 0])]

OcrCall ==
    /\ line.pc = "not_called"
    /\ line' = [pc |-> "converted", line |-> to_line(ocr_line)]
    /\ UNCHANGED ocr_line

OcrNext == OcrCall /\ UNCHANGED nonOcrVars

(***************************************************************************)
(* Specifications                                                          *)
(***************************************************************************)
\* The layout queue is not part of the run.
LayoutIdle ==
    /\ intra_threads = 1
    /\ n_parser = 0
    /\ n_reqs = 0
    /\ queue = <<>>
    /\ notifyPermit = 0
    /\ notifyWaiters = <<>>
    /\ rxLock = 0
    /\ wpc = <<>>
    /\ sem = <<>>
    /\ ppc = <<>>
    /\ rxAlive = <<>>
    /\ reply = <<>>
    /\ dequeues = <<>>
    /\ hpc = <<>>
    /\ hreq = <<>>
    /\ hworker = <<>>
    /\ hres = <<>>

\* The pure functions are not part of the run.
OtherIdle == BlockIdle /\ ChunkIdle /\ ArgIdle /\ OcrIdle

LayoutSpecInit ==
    OtherIdle /\ FutIdle /\ PoolIdle /\ NativeIdle /\ DocIdle /\ LayoutInit
LayoutSpec == LayoutSpecInit /\ [][LayoutNext]_vars

\* The scheduler runs every task that can take a step: the worker loops, the
\* spawned handle_request tasks, and a push that has sent goes on to notify.
\* Whether a requester pushes at all, or drops its receiver, is up to it.
LayoutFairness ==
    /\ \A c \in Ids : /\ WF_layoutVars(PushNotify(c))
                      /\ WF_layoutVars(HandlerAcquire(c))
                      /\ WF_layoutVars(HandlerInferDone(c))
                      /\ WF_layoutVars(HandlerRespond(c))
    /\ \A w \in Ids : /\ WF_layoutVars(WorkerLock(w))
                      /\ WF_layoutVars(WorkerRecv(w))
                      /\ WF_layoutVars(WorkerNotified(w))

LayoutFairSpec == LayoutSpec /\ LayoutFairness

FutSpecInit ==
    OtherIdle /\ LayoutIdle /\ PoolIdle /\ NativeIdle /\ DocIdle /\ FutInit
FutSpec == FutSpecInit /\ [][FutNext]_vars

PoolSpecInit ==
    OtherIdle /\ LayoutIdle /\ FutIdle /\ NativeIdle /\ DocIdle /\ PoolInit
PoolSpec == PoolSpecInit /\ [][PoolNext]_vars

\* A thread that is in get or put goes on: the lock is granted to a thread
\* that keeps asking for it, and a thread that holds it runs. Whether a
\* thread starts a get, puts its tensor or submits it is up to the thread.
PoolFairness ==
    \A t \in Threads :
      /\ SF_poolVars(GetLock(t))
      /\ WF_poolVars(GetPop(t))
      /\ WF_poolVars(PutPush(t))

PoolFairSpec == PoolSpec /\ PoolFairness

NativeSpecInit ==
    OtherIdle /\ LayoutIdle /\ FutIdle /\ PoolIdle /\ DocIdle /\ NativeInit
NativeSpec == NativeSpecInit /\ [][NativeNext]_vars

\* The worker thread runs whenever it is not blocked, and a consumer that
\* has not gone away keeps polling its stream.
NativeFairness ==
    /\ WF_nativeVars(NativeRecv)
    /\ WF_nativeVars(NativeSendPage)
    /\ WF_nativeVars(NativeReturnOk)
    /\ WF_nativeVars(NativeLoop)
    /\ \A r \in NativeIds : WF_nativeVars(ConsumerRecv(r))

NativeFairSpec == NativeSpec /\ NativeFairness

SaturationSpecInit ==
    OtherIdle /\ LayoutIdle /\ FutIdle /\ PoolIdle /\ DocIdle /\ SaturationInit
SaturationSpec == SaturationSpecInit /\ [][SaturationNext]_vars

BlockSpecInit ==
    ChunkIdle /\ ArgIdle /\ OcrIdle /\ LayoutIdle /\ FutIdle /\ PoolIdle /\ NativeIdle /\ DocIdle /\ BlockInit
BlockSpec == BlockSpecInit /\ [][BlockNext]_vars

ChunkSpecInit ==
    BlockIdle /\ ArgIdle /\ OcrIdle /\ LayoutIdle /\ FutIdle /\ PoolIdle /\ NativeIdle /\ DocIdle /\ ChunkInit
ChunkSpec == ChunkSpecInit /\ [][ChunkNext]_vars

ArgSpecInit ==
    BlockIdle /\ ChunkIdle /\ OcrIdle
      /\ LayoutIdle /\ FutIdle /\ PoolIdle /\ NativeIdle /\ DocIdle /\ ArgInit
ArgSpec == ArgSpecInit /\ [][ArgNext]_vars

OcrSpecInit ==
    BlockIdle /\ ChunkIdle /\ ArgIdle
      /\ LayoutIdle /\ FutIdle /\ PoolIdle /\ NativeIdle /\ DocIdle /\ OcrInit
OcrSpec == OcrSpecInit /\ [][OcrNext]_vars

\* One parse_document call and the native parser that serves its request.
DocSpecInit ==
    OtherIdle /\ LayoutIdle /\ FutIdle /\ PoolIdle /\ NativeInit /\ n_native = 1 /\ DocInit
DocSpec == DocSpecInit /\ [][DocNext]_vars

(***************************************************************************)
(* Claims about the layout queue                                           *)
(***************************************************************************)
\* The reply channel of request c was served: its handle_request task sent
\* the result (or found the receiver gone).
Answered(c) == hpc[c] \in {"done", "panicked"}

\* C1: every request whose push returned Ok is eventually dequeued by a
\* worker and a result is eventually sent on its reply channel, when every
\* inference completes and the tasks are scheduled fairly.
C1_EveryPushAnswered ==
    \A c \in Ids : (c \in Chans /\ ppc[c] = "wait") ~> (c \in Chans /\ Answered(c))

\* C2: each pushed request is dequeued by exactly one worker and answered at
\* most once, and an Ok response on a request's reply channel carries that
\* request's own page_id.
C2_OnceAndUncrossed ==
    \A c \in Chans :
        /\ dequeues[c] <= 1
        /\ (hpc[c] # "none") = (dequeues[c] = 1)
        /\ reply[c].kind = "ok" => reply[c].page_id = PageOf(c)
        /\ reply[c] # NoReply => hpc[c] = "done"

\* A later request is answered, with its own page, while an earlier one is
\* still in inference.
C2_Witness ==
    /\ n_reqs >= 2
    /\ hpc[1] = "infer"
    /\ reply[2] = [kind |-> "ok", page_id |-> 1]

\* C3: the inferences running at one moment, counted over all worker tasks,
\* are at most intra_threads.
C3_GlobalPermitBound == Cardinality(RunningInferences) <= intra_threads

\* C4: a reply receiver dropped before the response leaves the inference
\* running, the result is discarded, no permit leaks and no worker loop ends.
C4_DroppedReplyHarmless ==
    /\ \A w \in Workers : /\ wpc[w] \in {"lock", "recv", "notified", "parked"}
                          /\ sem[w] + Cardinality(PermitHolders(w)) = intra_threads
    /\ \A c \in Chans :
          /\ ~rxAlive[c] => reply[c] = NoReply
          /\ hpc[c] = "panicked" => ~rxAlive[c]
          /\ hpc[c] = "infer" => ENABLED HandlerInferDone(c)
          /\ hpc[c] = "respond" => ENABLED HandlerRespond(c)

\* A response was discarded (its task ended in the failed send), every permit
\* is back, and a worker loop is about to receive a later request.
C4_Witness ==
    /\ \E c \in Chans : hpc[c] = "panicked"
    /\ \A w \in Workers : sem[w] = intra_threads
    /\ \E w \in Workers : ENABLED WorkerRecv(w)

\* C30: a permit of a worker's semaphore is held only while the inference of
\* a request runs: it is back when the inference has finished, with a result
\* or with an error, before the response is sent; so whenever no inference
\* is running, all intra_threads permits are available.
C30_PermitOnlyDuringInference ==
    /\ \A w \in Workers :
          sem[w] = intra_threads
                     - Cardinality({c \in Chans : hworker[c] = w /\ hpc[c] = "infer"})
    /\ \A c \in Chans : reply[c] # NoReply => hpc[c] # "infer"
    /\ (\A c \in Chans : hpc[c] # "infer") => \A w \in Workers : sem[w] = intra_threads

\* An inference ended with an error; its response is not sent yet and the
\* semaphore of its worker has every permit again.
C30_Witness ==
    \E c \in Chans :
      /\ hpc[c] = "respond"
      /\ hres[c] = "err"
      /\ reply[c] = NoReply
      /\ sem[hworker[c]] = intra_threads

(***************************************************************************)
(* Claims about the async inference future                                 *)
(***************************************************************************)
\* C5: no lost wake-up. Once the callback has stored the result and returned,
\* the awaiting task is not left with its last poll having returned Pending
\* and no wake-up delivered.
C5_NoLostWakeup == ~(cpc = "done" /\ fpc = "pending" /\ ~scheduled)

\* C6: after an InferenceFut was dropped while pending, the callback that
\* fires later calls no waker, and it stores its result in an inner that is
\* still allocated.
C6_NoWakeAfterDrop ==
    /\ [][(fpc = "dropped" /\ ~did_receive) => wakes' = wakes]_vars
    /\ [](cpc \in {"inflight", "wake"} => innerRefs >= 1)

\* The future was polled, returned Pending with its waker stored, was dropped,
\* and the callback then stored its result and returned without a wake.
C6_Witness ==
    /\ fpc = "dropped"
    /\ ~did_receive
    /\ taken = "none"
    /\ cpc = "done"
    /\ value # "none"
    /\ wakes = 0

\* C31: the callback's write of the result (emplace_value) and poll's take
\* of it (try_take) never overlap: the callback does not write the cell
\* while a take of poll is between its read and its write of the cell.
C31_ValueAccessExclusive ==
    [][(cpc = "inflight" /\ cpc' = "wake") => fpc # "take_clear"]_vars

(***************************************************************************)
(* Claims about the buffer pool                                            *)
(***************************************************************************)
\* No thread is in get or put or owns a tensor, and no run is in flight.
PoolQuiesced ==
    /\ \A t \in Threads : tpc[t] = "idle"
    /\ \A x \in Tensors : ctx[x] # "inflight"

\* C7: every tensor taken from the pool for a submission is put back by that
\* submission's completion callback, so whenever no inference is in flight
\* (and every submission was accepted by the runtime) the pool holds its full
\* fixed set of tensors.
C7_PoolConservation ==
    (PoolQuiesced /\ \A x \in Tensors : ctx[x] # "leaked") => Len(store) = PoolSize

\* C8: a tensor obtained from get is owned by one thread until it is put back
\* or submitted: no two threads own the same tensor, an owned or submitted
\* tensor is not in the store, and get returns only with the tensor it popped
\* from a store that was not empty.
C8_ExclusiveTensor ==
    /\ [](/\ \A t, u \in Threads : (t # u /\ held[t] # 0) => held[t] # held[u]
          /\ \A i, j \in 1..Len(store) : i # j => store[i] # store[j]
          /\ \A i \in 1..Len(store) :
                /\ \A t \in Threads : held[t] # store[i]
                /\ ctx[store[i]] = "none"
          /\ \A t \in Threads : (held[t] # 0) = (tpc[t] \in {"holding", "put_push"}))
    /\ [][\A t \in Threads :
            (held[t] = 0 /\ held'[t] # 0) =>
                /\ store # <<>>
                /\ held'[t] = store[Len(store)]
                /\ Len(store') = Len(store) - 1]_vars

\* Two threads own a tensor each at the same time, and the pool is empty.
C8_Witness ==
    /\ \E t, u \in Threads : t # u /\ held[t] # 0 /\ held[u] # 0
    /\ store = <<>>

\* Thread t found the pool empty and is blocked in get: in cvar.wait, or
\* woken and about to take the lock again.
BlockedInGet(t) == tpc[t] \in {"cv_wait", "cv_relock"}

\* C32: a get that finds the pool empty blocks until a tensor is put, and no
\* signal of a put is lost: a blocked getter returns only with a tensor it
\* popped from the store, and a getter does not stay blocked while a tensor
\* stays in the pool.
C32_NoLostSignal ==
    /\ [][\A t \in Threads :
            (BlockedInGet(t) /\ tpc'[t] \notin {"cv_wait", "cv_relock"}) =>
                tpc'[t] = "get_pop" /\ poolLock' = t]_vars
    /\ \A t \in Threads :
          (BlockedInGet(t) /\ store # <<>>)
             ~> (tpc[t] = "holding" \/ store = <<>>)

\* Two getters were blocked on the empty pool; a put has pushed a tensor and
\* woken one of them, the other still waits.
C32_Witness ==
    \E t, u \in Threads :
      /\ tpc[t] = "cv_relock"
      /\ tpc[u] = "cv_wait"
      /\ store # <<>>

\* C36: the context allocated for a submission is reclaimed exactly once, by
\* the completion callback when the runtime accepted the run and also when
\* the submission failed: no context stays allocated with nothing left to
\* free it.
C36_ContextReclaimed ==
    \A x \in Tensors : ctx[x] \in {"none", "inflight", "reclaimed"}

(***************************************************************************)
(* Native parser claims (NativeSpec)                                       *)
(***************************************************************************)
\* First and one-past-last page of the range the request at hand selects.
CurStart == IF cur.range = NoRange THEN 0 ELSE cur.range[1]
CurEnd == IF cur.range = NoRange THEN cur.n_pages ELSE cur.range[2]

\* C9: for one native parse request the results are sent in strictly
\* increasing page_id order, one per page of the selected range (all pages
\* when no range is given), and each page_id is the page's zero-based index
\* in the source document, not its position in the range: what has been sent
\* so far is for the pages start, start+1, .. in this order, every page is
\* one of the document, and a request that returns Ok has sent one result
\* for every page of the range.
C9_OrderedSourceIds ==
    /\ \A i \in 1..Len(cur.sent) :
         /\ cur.sent[i].kind \in {"page", "page_err"}
         /\ cur.sent[i].page_id = CurStart + i - 1
         /\ cur.sent[i].page_id < cur.n_pages
    /\ \A i, j \in 1..Len(cur.sent) :
         i < j => cur.sent[i].page_id < cur.sent[j].page_id
    /\ cur.result \in {"ok", "send_failed"} \/ npc = "loop"
         => /\ CurStart <= CurEnd /\ CurEnd <= cur.n_pages
            /\ Len(cur.sent) <= CurEnd - CurStart
    /\ cur.result = "ok" => Len(cur.sent) = CurEnd - CurStart
    /\ npc = "loop" => cur.pages = RangeSeq(CurStart + Len(cur.sent), CurEnd)

\* C9 witness: a request with a range that starts after page 0 has returned
\* Ok after sending two results.
C9_Witness ==
    /\ cur.result = "ok"
    /\ cur.range # NoRange
    /\ cur.range[1] >= 1
    /\ Len(cur.sent) = 2
    /\ cur.sent[1].page_id = cur.range[1]

\* C10: when the document cannot be opened or the range's end exceeds the
\* page count, a ParseNativeError item has been sent on the request's result
\* stream by the time the stream terminates.
C10_ErrorItemOnStream ==
    (cur.result \in {"open_failed", "range_failed"} /\ nclosed[cur.req])
        => \E i \in 1..Len(cur.sent) : cur.sent[i] = NativeErrorItem

\* The last result sent by the step, when the step sent one.
SentNow == Len(cur'.sent) = Len(cur.sent) + 1
LastSent == cur'.sent[Len(cur'.sent)]

\* C12: a failure while natively parsing one page is sent as an Err item in
\* that page's position, and the worker goes on with the remaining pages:
\* the step that sends the Err of the page at the head of the remaining
\* pages stays in the loop with the pages after it, a request that returns
\* Ok has sent one item for every page of its range, and a request that
\* stops before that does so only because a send found the receiver gone.
C12_PageErrorInline ==
    /\ [][(SentNow /\ LastSent.kind = "page_err")
            => /\ LastSent.page_id = Head(cur.pages)
               /\ npc' = "loop"
               /\ cur'.pages = Tail(cur.pages)]_vars
    /\ [](cur.result = "ok" => Len(cur.sent) = CurEnd - CurStart)
    /\ []((npc = "returned" /\ cur.pages # <<>>) => cur.result = "send_failed")

\* C12 witness: a request returned Ok after sending the Err of its first
\* page and then the result of its second page.
C12_Witness ==
    /\ cur.result = "ok"
    /\ Len(cur.sent) >= 2
    /\ cur.sent[1].kind = "page_err"
    /\ cur.sent[2].kind = "page"

\* C18: backpressure on the native result channel: the channel of a request
\* never holds more than its capacity of page results; when it is full and
\* the consumer has not gone away, the worker's send cannot go through; and
\* no page result is dropped or overwritten: the channel holds the latest
\* results sent, in the order they were sent.
C18_Backpressure ==
    /\ \A r \in NativeReqs : Len(nchan[r]) <= NativeChanCap
    /\ (npc = "loop" /\ cur.pages # <<>> /\ nrx[cur.req] = "receiving"
          /\ Len(nchan[cur.req]) = NativeChanCap)
         => ~ENABLED NativeSendPageWith({TRUE})
    /\ (cur.req # 0 /\ nrx[cur.req] = "receiving")
         => nchan[cur.req] = SubSeq(cur.sent, Len(cur.sent) - Len(nchan[cur.req]) + 1,
                                    Len(cur.sent))

\* C18 witness: the channel of request 1 is full, its consumer has received
\* a result and is still there, and the worker has pages left to send.
C18_Witness ==
    /\ Len(nchan[1]) = NativeChanCap
    /\ Len(cur.sent) > NativeChanCap
    /\ npc = "loop" /\ cur.req = 1 /\ cur.pages # <<>>
    /\ nrx[1] = "receiving"

\* C19: the single native worker handles one request at a time in
\* submission order: the queue holds the waiting requests oldest first, all
\* of them submitted after the request at hand; a request has results on its
\* stream, or is at hand, or is over, only when every request submitted
\* before it is over; and at most MAX_CONCURRENT_NATIVE_REQS submissions wait
\* in the queue, a further push waiting for room.
C19_OneRequestAtATime ==
    /\ Len(nqueue) <= MAX_CONCURRENT_NATIVE_REQS
    /\ \A i \in 1..Len(nqueue) :
         /\ nqueue[i] > cur.req
         /\ i < Len(nqueue) => nqueue[i] < nqueue[i + 1]
    /\ \A r \in NativeReqs :
         (nchan[r] # <<>> \/ nclosed[r] \/ cur.req = r)
            => \A q \in NativeReqs : q < r => nclosed[q]
    /\ (Len(nqueue) = MAX_CONCURRENT_NATIVE_REQS /\ npc # "crashed")
         => \A r \in NativeReqs : ~ENABLED NativePush(r)

\* C19 witness: MAX_CONCURRENT_NATIVE_REQS requests wait in the queue while
\* the worker has sent a result of the request at hand, and a further push
\* is still to come.
C19_Witness ==
    /\ Len(nqueue) = MAX_CONCURRENT_NATIVE_REQS
    /\ cur.req # 0 /\ cur.sent # <<>>
    /\ \E r \in NativeReqs : npushed[r] = "no"

\* Request r, if the queue accepted it, has its stream closed and its
\* consumer out of the receive loop.  Both last once they hold.
StreamOver(r) == npushed[r] = "ok" => (nclosed[r] /\ nrx[r] # "receiving")

\* C20: for every request accepted by the native queue whose consumer keeps
\* receiving, the result stream is eventually closed, after the last page
\* result or after a request-level failure, and the consumer's receive loop
\* ends: from some point on this holds of every accepted request.
C20_StreamEventuallyClosed == <>[](\A r \in NativeReqs : StreamOver(r))

\* C20 witness: the consumer of a request saw the end of the stream after
\* the worker sent all of its two or more pages and returned Ok.
C20_Witness ==
    /\ cur.req # 0 /\ cur.result = "ok" /\ Len(cur.sent) >= 2
    /\ nclosed[cur.req] /\ nrx[cur.req] = "done"

\* C34: the native worker survives every failing request: whatever the
\* requests were, the worker loop is still running and every
\* ParseNativeQueue::push succeeded.
C34_WorkerSurvivesFailures ==
    /\ npc # "crashed"
    /\ \A r \in NativeReqs : npushed[r] # "err"

(***************************************************************************)
(* Document orchestrator claims (DocSpec)                                  *)
(***************************************************************************)
\* What the native worker makes of the request of the parse_document call.
DocSelection == Selection(ddoc.openable, ddoc.n_pages, ddoc.range)
\* parse_doc_pages returned Ok(parsed_pages): parse_document goes on to
\* build the document.
PagesReturnedOk == dpc = "build" \/ dresult \in {"ok", "block_merge_error"}

\* C11: parse_document returns a ParseNative failure, and never goes on to
\* build and return a document, when the native parser cannot open the
\* document or rejects the page range.
C11_NativeFailureIsFatal ==
    (dpc # "start" /\ DocSelection \in {"open_failed", "range_failed"})
        => /\ ~PagesReturnedOk
           /\ dpc = "returned" => dresult = "parse_native_error"

\* Pages the join loop logged as failed, and pages it kept.
FailedPages == {joined[i].page_id : i \in {j \in 1..Len(joined) : joined[j].outcome # "page"}}
OkPages == {joined[i].page_id : i \in {j \in 1..Len(joined) : joined[j].outcome = "page"}}
\* Elements of a sequence.
Range(s) == {s[i] : i \in 1..Len(s)}
\* Pages of the requested range (of the whole document when none is set).
RequestedPages ==
    IF ddoc.range = NoRange THEN 0..(ddoc.n_pages - 1)
    ELSE ddoc.range[1]..(ddoc.range[2] - 1)

\* C13: a page whose native parse or whose fusion task fails is left out of
\* the output while every other page still appears, and a single failing
\* page never crashes the document parse: parse_document does not panic, and
\* the pages parse_doc_pages returns are the selected pages whose results
\* were all received, minus the failed ones.
C13_PageFailureTolerated ==
    /\ dresult # "panicked"
    /\ (PagesReturnedOk /\ DocSelection = "selected")
         => Range(parsed_pages) = RequestedPages \ FailedPages

\* C14: if every page of the document fails, parse_document returns a
\* failure: parse_doc_pages does not return Ok with no page at all when the
\* document had pages and each of them was logged as failed.
C14_AllPagesFailedIsFailure ==
    (PagesReturnedOk /\ RequestedPages # {} /\ FailedPages = RequestedPages)
        => Len(parsed_pages) > 0

\* C15: page coverage: the pages parse_doc_pages returns hold exactly once
\* each page of the requested range that did not fail, so their number is
\* the size of the range minus the failed pages.
C15_PageCoverage ==
    PagesReturnedOk
        => /\ Range(parsed_pages) = RequestedPages \ FailedPages
           /\ Len(parsed_pages) = Cardinality(RequestedPages) - Cardinality(FailedPages)

\* The elements of a set of numbers in increasing order.
RECURSIVE AscendingSeq(_)
AscendingSeq(S) ==
    IF S = {} THEN <<>>
    ELSE LET m == CHOOSE x \in S : \A y \in S : x <= y
         IN <<m>> \o AscendingSeq(S \ {m})

\* C16: the pages of a returned document are in strictly increasing id
\* order, whatever order the fusion tasks finished in.
C16_PagesSortedById ==
    PagesReturnedOk
        => \A i, j \in 1..Len(parsed_pages) : i < j => parsed_pages[i] < parsed_pages[j]

\* C16 witness: a document was returned whose first two fusion tasks
\* finished in decreasing id order, both with a page.
C16_Witness ==
    /\ dresult = "ok"
    /\ Len(joined) >= 2
    /\ joined[1].outcome = "page" /\ joined[2].outcome = "page"
    /\ joined[1].page_id > joined[2].page_id

\* C17: order robustness: the page sequence, and the element sequence handed
\* to the title leveler and the block merger, are those of the run in which
\* the fusion tasks complete in page order; they depend on which pages were
\* parsed and not on the order in which their tasks completed.
C17_OrderRobust ==
    PagesReturnedOk
        => /\ parsed_pages = AscendingSeq(OkPages)
           /\ AllElements(parsed_pages) = AllElements(AscendingSeq(OkPages))

\* C17 witness: the tasks of three pages completed in the order 1, 2, 0 and
\* parse_doc_pages returned.
C17_Witness ==
    /\ dpc = "build"
    /\ Len(joined) = 3
    /\ \A i \in 1..3 : joined[i].outcome = "page"
    /\ joined[1].page_id = 1 /\ joined[2].page_id = 2 /\ joined[3].page_id = 0

\* C26: page_callback is invoked for each page whose native result was
\* received (whose fusion task was spawned), once the fusion of that page
\* has finished and also when it failed: unless the caller drops the
\* parse, no fusion task leaves the JoinSet without the callback having
\* been invoked with its page.
C26_CallbackForEveryReceivedPage ==
    [][dpc' # "dropped" => \A p \in tasks \ tasks' : p \in CalledBack']_vars

\* C33: after the parse_document future was dropped in the middle of a
\* parse, its fusion tasks are cancelled and the native worker is not left
\* blocked on the request's result channel: it can take its next step, the
\* next send of the request fails and ends the request, and the worker loop
\* goes back to receive the requests of other documents.
C33_DropEndsTheRequest ==
    /\ [](dpc = "dropped" =>
            /\ tasks = {}
            /\ nchan[1] = <<>>
            /\ npc = "loop" => ENABLED (NativeSendPage \/ NativeReturnOk)
            /\ npc = "returned" => ENABLED NativeLoop)
    /\ [][(dpc = "dropped" /\ npc = "loop" /\ cur.pages # <<>> /\ cur' # cur) =>
            (cur'.result = "send_failed" /\ npc' = "returned")]_vars

\* The future was dropped with a fusion task spawned and a page still to be
\* sent; the send failed, the request ended and the worker is back at
\* blocking_recv.
C33_Witness ==
    /\ dpc = "dropped"
    /\ tasks = {}
    /\ joined = <<>>
    /\ npc = "returned"
    /\ cur.result = "send_failed"
    /\ Len(cur.sent) >= 1
    /\ ENABLED NativeLoop

(***************************************************************************)
(* Claims about blocks                                                     *)
(***************************************************************************)
\* The element kind that goes with a block kind.
MatchingKind(kind) ==
    CASE kind = "TextBlock" -> "Text"
      [] kind = "ListBlock" -> "ListItem"
      [] kind = "Header" -> "Header"
      [] kind = "Footer" -> "Footer"
      [] OTHER -> "none"

\* Box a encloses box b.
Encloses(a, b) == a.x0 <= b.x0 /\ a.y0 <= b.y0 /\ a.x1 >= b.x1 /\ a.y1 >= b.y1

\* t is s without its leading and trailing whitespace.
IsTrimOf(t, s) ==
    \E i \in 0..Len(s) : \E j \in i..Len(s) :
      /\ t = SubSeq(s, i + 1, j)
      /\ \A k \in 1..i : s[k] \in Whitespace
      /\ \A k \in (j + 1)..Len(s) : s[k] \in Whitespace
      /\ t = <<>> \/ (t[1] \notin Whitespace /\ t[Len(t)] \notin Whitespace)

\* C21: after any sequence of Block::merge calls, every element the block
\* absorbed has the kind that matches the block's kind (Text for a
\* TextBlock, ListItem for a ListBlock, Header for a Header, Footer for a
\* Footer); merge never absorbs an element of another kind.
C21_AbsorbedKindsMatch ==
    \A i \in 1..Len(absorbed) : absorbed[i].kind = MatchingKind(blk.kind)

\* A block that absorbed two elements and then refused one of another kind.
C21_Witness == Len(absorbed) = 2 /\ mres.res = "err"

\* C22: a merge the block may not take (an element of another kind, or any
\* element offered to a Title, Image or Table block) ends with an error
\* value and never with a crash.
C22_RefusalIsAnError ==
    mres.res \in {"err", "panic"} => mres.res = "err" /\ mres.error # NoError

\* C23: every successful merge leaves the block with a bounding box that
\* encloses the box it had before and the box of the merged element.
C23_BBoxSubsumption ==
    [][absorbed' # absorbed =>
         /\ Encloses(blk'.bbox, blk.bbox)
         /\ Encloses(blk'.bbox, absorbed'[Len(absorbed')].bbox)]_vars

\* A block whose box grew: it is strictly larger than the box of the last
\* element merged into it.
C23_Witness ==
    /\ absorbed # <<>>
    /\ blk.bbox # absorbed[Len(absorbed)].bbox
    /\ blk.bbox = [x0 |-> 0, y0 |-> 0, x1 |-> 2, y1 |-> 2]

\* C24: pages_id of a block is nonempty, strictly increasing, and holds the
\* page_id of every element merged into the block.
C24_PagesOfMergedElements ==
    /\ blk.pages_id # <<>>
    /\ \A i \in 1..(Len(blk.pages_id) - 1) : blk.pages_id[i] < blk.pages_id[i + 1]
    /\ \A i \in 1..Len(absorbed) :
         \E j \in 1..Len(blk.pages_id) : blk.pages_id[j] = absorbed[i].page_id

\* C25: each ListItem merged into a ListBlock added exactly one item, after
\* the items there were, equal to the text of the element without its
\* leading and trailing whitespace; the earlier items are as they were.
C25_ListItemAppendedTrimmed ==
    blk.kind = "ListBlock" =>
      /\ Len(blk.items) = Len(absorbed) + 1
      /\ blk.items[1] = <<"a">>
      /\ \A i \in 1..Len(absorbed) : IsTrimOf(blk.items[i + 1], absorbed[i].text)

\* A list that took " a b " as its second merged item.
C25_Witness ==
    /\ blk.kind = "ListBlock"
    /\ Len(absorbed) = 2
    /\ absorbed[2].text = <<" ", "a", " ", "b", " ">>
    /\ blk.items[3] = <<"a", " ", "b">>

\* C35: a Block::merge that returns a kind-mismatch error leaves the block
\* exactly as it was: text or items, bbox and pages_id are unchanged.
C35_RefusalLeavesBlock ==
    [][mres'.res = "err" => blk' = blk]_vars

\* A list block that took one item and then refused an element of another
\* kind.
C35_Witness ==
    /\ mres.res = "err"
    /\ blk.kind = "ListBlock"
    /\ Len(absorbed) = 1
    /\ Len(blk.items) = 2

(***************************************************************************)
(* Claims about the page ranges of the workers                             *)
(***************************************************************************)
\* The number of pages the arguments select: all n_pages, or those of
\* page_range.
SelectedCount ==
    IF cin.page_range = NoRange THEN cin.n_pages
    ELSE IF cin.page_range[2] > cin.page_range[1]
           THEN cin.page_range[2] - cin.page_range[1]
           ELSE 0
FirstSelected == IF cin.page_range = NoRange THEN 0 ELSE cin.page_range[1]
MoreSelectedThanWorkers == cin.n_workers >= 1 /\ SelectedCount > cin.n_workers

\* C27: with more selected pages than workers (and at least one worker),
\* chunk_docs_range returns exactly n_workers ranges.
C27_OneRangePerWorker ==
    cout.pc # "not_called" /\ MoreSelectedThanWorkers =>
      cout.pc = "returned" /\ Len(cout.ranges) = cin.n_workers

\* C28: with more selected pages than workers, the returned ranges are
\* adjacent: the first starts at the first selected page and each ends
\* where the next begins.
C28_RangesAdjacent ==
    cout.pc # "not_called" /\ MoreSelectedThanWorkers =>
      /\ cout.pc = "returned"
      /\ cout.ranges # <<>>
      /\ cout.ranges[1][1] = FirstSelected
      /\ \A i \in 1..(Len(cout.ranges) - 1) : cout.ranges[i][2] = cout.ranges[i + 1][1]

\* C29: with no more selected pages than workers, chunk_docs_range returns
\* exactly one range, 0..n_pages.
C29_SingleRangeWhenFewPages ==
    cout.pc # "not_called" /\ SelectedCount <= cin.n_workers =>
      cout = [pc |-> "returned", ranges |-> << <<0, cin.n_pages>> >>]

\* The call returned for as many pages as workers.
C29_Witness ==
    /\ cout.pc = "returned"
    /\ cin.n_pages = MaxWorkers
    /\ cin.n_workers = MaxWorkers
    /\ cin.page_range = NoRange

\* The pages of the half-open range r, and the pages the arguments select.
PagesOf(r) == {p \in 0..MaxChunkPages : r[1] <= p /\ p < r[2]}
SelectedSet ==
    IF cin.page_range = NoRange THEN 0..(cin.n_pages - 1) ELSE PagesOf(cin.page_range)
RangeInsideDocument ==
    \/ cin.page_range = NoRange
    \/ cin.page_range[1] <= cin.page_range[2] /\ cin.page_range[2] <= cin.n_pages

\* C37: for n_workers >= 1 and a page_range inside 0..n_pages, the returned
\* ranges, read as half-open, are pairwise disjoint, lie inside the selected
\* range, and together hold every selected page.
C37_RangesPartitionSelection ==
    (cout.pc # "not_called" /\ cin.n_workers >= 1 /\ RangeInsideDocument) =>
      /\ cout.pc = "returned"
      /\ \A i, j \in 1..Len(cout.ranges) :
            i # j => PagesOf(cout.ranges[i]) \cap PagesOf(cout.ranges[j]) = {}
      /\ UNION {PagesOf(cout.ranges[i]) : i \in 1..Len(cout.ranges)} = SelectedSet

(***************************************************************************)
(* Claims about the --page-range argument                                  *)
(***************************************************************************)
\* The number a string writes in decimal, blanks around it (and a '+' before
\* it) aside; -1 when the string writes no number.
RECURSIVE DecimalValue(_)
DecimalValue(d) ==
    IF d = <<>> THEN 0
    ELSE 10 * DecimalValue(SubSeq(d, 1, Len(d) - 1))
           + (CHOOSE v \in 0..9 : DecimalDigits[v + 1] = d[Len(d)])
WrittenNumber(s) ==
    LET cores == {t \in {SubSeq(s, i, j) : i \in 1..(Len(s) + 1), j \in 0..Len(s)} :
                    IsTrimOf(t, s)}
        t == CHOOSE c \in cores : TRUE
        d == IF t # <<>> /\ t[1] = "+" THEN SubSeq(t, 2, Len(t)) ELSE t
    IN  IF d # <<>> /\ \A i \in 1..Len(d) : \E v \in 1..10 : DecimalDigits[v] = d[i]
          THEN DecimalValue(d)
          ELSE -1

\* The 1-based pages the returned zero-based half-open range selects.
PagesSelected == {q + 1 : q \in prange.range[1]..(prange.range[2] - 1)}

\* C38: parse_page_range accepts 'a-b' exactly when a >= 1 and b >= a, and a
\* single number p exactly when p >= 1; the range it returns selects exactly
\* the 1-based pages a..b (page p for a single number) and is never empty;
\* every other input gives an error.
C38_PageRangeArgument ==
    prange.pc # "not_called" =>
      LET dashes == {i \in 1..Len(range_str) : range_str[i] = "-"}
          first == CHOOSE i \in dashes : \A j \in dashes : i <= j
          a == IF dashes = {} THEN WrittenNumber(range_str)
               ELSE WrittenNumber(SubSeq(range_str, 1, first - 1))
          b == IF dashes = {} THEN a
               ELSE WrittenNumber(SubSeq(range_str, first + 1, Len(range_str)))
      IN  IF a >= 1 /\ b >= a
            THEN prange.pc = "ok" /\ PagesSelected = a..b /\ PagesSelected # {}
            ELSE prange.pc = "err"

\* The argument "1-2" gave the range 0..2.
C38_Witness ==
    /\ range_str = <<"1", "-", "2">>
    /\ prange = [pc |-> "ok", range |-> <<0, 2>>]

(***************************************************************************)
(* Claims about OCR lines                                                  *)
(***************************************************************************)
\* C39: the Line made of an OCR line by to_line has the same text and bbox,
\* rotation 0, and exactly one span.
C39_SingleSpanLine ==
    line.pc = "converted" =>
      /\ line.line.text = ocr_line.text
      /\ line.line.bbox = ocr_line.bbox
      /\ line.line.rotation = 0
      /\ Len(line.line.spans) = 1

====
